---- MODULE Spec2Model ----
(***************************************************************************)
(* Model of server.js: the loved-one profile store with its photo files,   *)
(* the image request forwarder, and the AR session log.                     *)
(***************************************************************************)
EXTENDS Integers, Sequences, FiniteSets

\* ---------------------------------------------------------------- bounds
\* Largest reading of Date.now() the model reaches.
MaxClock == 1
\* Math.round(Math.random() * 1E9) is drawn from 0 .. MaxRand - 1.
MaxRand == 2
\* Most files one multipart request carries.
MaxFiles == 2
\* Most outbound calls to the generation service the model issues.
MaxCalls == 2
\* Most append requests in flight together.
MaxReq == 2
\* Most numbered AR session records the clients of SpecAR send.
MaxSends == 2
\* Most records the client of SpecSeq appends in a row.
MaxAppends == 1005

\* sessions.slice(-1000)
Limit == 1000

VARIABLES
    now,        \* the reading of Date.now()
    lovedOnes,  \* let lovedOnes = {}: id -> profile
    disk,       \* the files in uploadsDir
    upload,     \* the create request multer has parsed, waiting for its handler
    apiKey,     \* whether process.env.OPENAI_API_KEY is set
    pending,    \* the fetch calls awaiting the generation service
    calls,      \* how many fetch calls were issued
    doc,        \* the content of arSessionsFile
    slot,       \* the AR append requests: position and locals of each handler
    sent,       \* the highest sessionId a client has sent
    last        \* the last response sent

vars == <<now, lovedOnes, disk, upload, apiKey, pending, calls,
          doc, slot, sent, last>>
profileVars == <<lovedOnes, disk, upload>>
genVars == <<apiKey, pending, calls>>
arVars == <<doc, slot, sent>>

None == [none |-> TRUE]

\* ------------------------------------------------------------ helpers
Range(s) == {s[i] : i \in 1..Len(s)}

SeqsUpTo(S, n) == UNION {[1..k -> S] : k \in 0..n}

\* obj[key] = value
Put(f, k, v) == [x \in DOMAIN f \cup {k} |-> IF x = k THEN v ELSE f[x]]

\* delete obj[key]
Remove(f, k) == [x \in DOMAIN f \ {k} |-> f[x]]

\* Number.prototype.toString(): the decimal digits, most significant first.
RECURSIVE toString(_)
toString(n) == IF n < 10 THEN <<n>> ELSE Append(toString(n \div 10), n % 10)

\* The ids a request may name: every id the clock can produce, and one it cannot.
RequestIds == {toString(t) : t \in 0..MaxClock} \cup {<<9, 9>>}

\* ------------------------------------------------- Photo Asset Manager
\* What a client declares of a file: its extension and its content type.
FileTypes == {[ext |-> ".png", mime |-> "image/png"],
              [ext |-> ".png", mime |-> "image/gif"],
              [ext |-> ".gif", mime |-> "image/gif"]}

\* allowedTypes = /jpeg|jpg|png|webp/, tested on a string
allowedTypes(s) ==
    s \in {".jpeg", ".jpg", ".png", ".webp",
           "image/jpeg", "image/jpg", "image/png", "image/webp"}

\* upload.fileFilter: the extension and the declared content type both match
fileFilter(file) == allowedTypes(file.mime) /\ allowedTypes(file.ext)

\* storage.filename: Date.now() + '-' + random + extname
filename(t, file) == [ts |-> t, rnd |-> file.rnd, ext |-> file.ext]

\* `/uploads/${file.filename}`
PhotoPath(fn) == [dir |-> "/uploads", file |-> fn]

\* path.join(__dirname, photoPath): the file of uploadsDir the path names
FullPath(p) == p.file

Files == {[ext |-> t.ext, mime |-> t.mime, rnd |-> r] :
              t \in FileTypes, r \in 0..(MaxRand - 1)}

Names == {"", "Mom"}
Descriptions == {"", "warm smile"}
Relationships == {"mother"}

\* A create request without a name, without a description or without photos.
Incomplete(req) == req.name = "" \/ req.description = "" \/ Len(req.files) = 0

\* The first file of the request the filter rejects, 0 when it accepts all.
RECURSIVE FirstRejected(_, _)
FirstRejected(files, i) ==
    IF i > Len(files) THEN 0
    ELSE IF ~fileFilter(files[i]) THEN i
    ELSE FirstRejected(files, i + 1)

Stored(files, n) == [i \in 1..n |-> filename(now, files[i])]

\* upload.array('photos', 10) on a request whose files all pass the filter:
\* every file is written to uploadsDir, then the handler is called.
UploadAccepted(name, description, relationship, files) ==
    /\ upload = None
    /\ FirstRejected(files, 1) = 0
    /\ disk' = disk \cup Range(Stored(files, Len(files)))
    /\ upload' = [name |-> name, description |-> description,
                  relationship |-> relationship,
                  files |-> Stored(files, Len(files))]
    /\ UNCHANGED <<now, lovedOnes, genVars, arVars, last>>

\* upload.array('photos', 10) on a request with a file the filter rejects:
\* cb(new Error(...)) aborts the request, the files already written are
\* removed, and the error goes to the framework's default error handler
\* (no error middleware is installed), which answers 500 with an HTML page.
UploadRejected(name, description, relationship, files) ==
    /\ upload = None
    /\ FirstRejected(files, 1) # 0
    /\ disk' = disk \ Range(Stored(files, FirstRejected(files, 1) - 1))
    /\ last' = [op |-> "create", status |-> 500, body |-> "html",
                filtered |-> TRUE,
                incomplete |-> Incomplete([name |-> name, description |-> description,
                                           files |-> files])]
    /\ UNCHANGED <<now, lovedOnes, upload, genVars, arVars>>

\* ------------------------------------------------------- Profile Store
\* if (!name || !description) ...; if (!req.files || req.files.length === 0) ...
CreateValidation(req) ==
    IF req.name = "" \/ req.description = "" THEN "fields"
    ELSE IF Len(req.files) = 0 THEN "photos"
    ELSE "ok"

\* The record the create handler stores.
NewLovedOne(req) ==
    [id |-> toString(now),
     name |-> req.name,
     description |-> req.description,
     relationship |-> req.relationship,
     photos |-> [i \in 1..Len(req.files) |-> PhotoPath(req.files[i])],
     createdAt |-> now]

\* app.post('/api/loved-ones'): the handler, after multer
CreateLovedOne ==
    /\ upload # None
    /\ upload' = None
    /\ IF CreateValidation(upload) # "ok"
       THEN /\ last' = [op |-> "create", status |-> 400, body |-> "error",
                        filtered |-> FALSE, incomplete |-> Incomplete(upload)]
            /\ UNCHANGED lovedOnes
       ELSE /\ lovedOnes' = Put(lovedOnes, toString(now), NewLovedOne(upload))
            /\ last' = [op |-> "create", status |-> 200, body |-> "success",
                        filtered |-> FALSE, incomplete |-> Incomplete(upload)]
    /\ UNCHANGED <<now, disk, genVars, arVars>>

\* app.get('/api/loved-ones')
ListLovedOnes ==
    /\ last' = [op |-> "list", status |-> 200, body |-> "success"]
    /\ UNCHANGED <<now, profileVars, genVars, arVars>>

\* if (!lovedOne) return res.status(404)
GetStatus(id) == IF id \in DOMAIN lovedOnes THEN 200 ELSE 404

\* app.get('/api/loved-ones/:id')
GetLovedOne(id) ==
    /\ last' = IF GetStatus(id) = 404
               THEN [op |-> "get", status |-> 404, body |-> "error"]
               ELSE [op |-> "get", status |-> 200, body |-> "success"]
    /\ UNCHANGED <<now, profileVars, genVars, arVars>>

\* The files photos[1..n] name.
PhotoFiles(photos, n) == {FullPath(photos[i]) : i \in 1..n}

DeleteRecord_Keep(id) == lovedOnes

\* delete lovedOnes[req.params.id]
DeleteRecord(id) == Remove(lovedOnes, id)

\* app.delete('/api/loved-ones/:id'). failAt is the photo whose unlinkSync
\* throws, 0 when none does; the handler has no try/catch, so the exception
\* reaches the framework's default error handler.
DeleteLovedOne(id, failAt) ==
    IF GetStatus(id) = 404
    THEN /\ failAt = 0
         /\ last' = [op |-> "delete", status |-> 404, body |-> "error"]
         /\ UNCHANGED <<now, profileVars, genVars, arVars>>
    ELSE LET photos == lovedOnes[id].photos IN
         /\ failAt \in 0..Len(photos)
         /\ IF failAt = 0
            THEN /\ disk' = disk \ PhotoFiles(photos, Len(photos))
                 /\ lovedOnes' = DeleteRecord(id)
                 /\ last' = [op |-> "delete", status |-> 200, body |-> "success",
                             id |-> id]
            ELSE \* unlinkSync is reached only for a file that exists
                 /\ FullPath(photos[failAt]) \in disk \ PhotoFiles(photos, failAt - 1)
                 /\ disk' = disk \ PhotoFiles(photos, failAt - 1)
                 /\ last' = [op |-> "delete", status |-> 500, body |-> "html"]
                 /\ UNCHANGED lovedOnes
         /\ UNCHANGED <<now, upload, genVars, arVars>>

\* app.get('/api/health')
Health ==
    /\ last' = [op |-> "health", status |-> 200, body |-> "success"]
    /\ UNCHANGED <<now, profileVars, genVars, arVars>>

\* Date.now() advances.
Tick ==
    /\ now < MaxClock
    /\ now' = now + 1
    /\ UNCHANGED <<profileVars, genVars, arVars, last>>

\* ------------------------------------------------------ profile claims
\* The create handler answers in this step.
CreateResponds == upload # None /\ upload' = None

\* C3: every successful create allocates an id no stored profile has, so the
\* number of stored profiles grows by exactly one.
C3_UniqueIds ==
    [][(CreateResponds /\ last'.status = 200) =>
          /\ toString(now) \notin DOMAIN lovedOnes
          /\ Cardinality(DOMAIN lovedOnes') = Cardinality(DOMAIN lovedOnes) + 1]_vars

\* The delete handler answers success for id in this step.
DeleteSucceeds(id) ==
    /\ id \in DOMAIN lovedOnes
    /\ last' = [op |-> "delete", status |-> 200, body |-> "success", id |-> id]

\* C4: after a successful delete of a profile none of its photo files is on
\* disk and a get of its id answers 404; a get of an id that answers 404 keeps
\* answering 404 until a successful create allocates that id.
C4_DeleteRemovesPhotosAndRecord ==
    [][\A id \in RequestIds :
          /\ DeleteSucceeds(id) =>
                /\ PhotoFiles(lovedOnes[id].photos, Len(lovedOnes[id].photos))
                       \cap disk' = {}
                /\ GetStatus(id)' = 404
          /\ (GetStatus(id) = 404 /\ GetStatus(id)' # 404) =>
                /\ CreateResponds
                /\ last'.op = "create" /\ last'.status = 200
                /\ id = toString(now)]_vars

\* A delete answered success, a get of that id answers 404, and files of other
\* requests are still on disk.
C4_Witness ==
    /\ last.op = "delete" /\ last.status = 200
    /\ GetStatus(last.id) = 404
    /\ disk # {}

\* C5: a create request without a name, without a description or without
\* photos is answered 400.
C5_IncompleteCreateIs400 ==
    (last.op = "create" /\ last.incomplete) => last.status = 400

\* C6: a create request rejected with 400 leaves none of its uploaded files on
\* disk.
C6_RejectedCreateStoresNoFile ==
    [][(CreateResponds /\ last'.status = 400) =>
          Range(upload.files) \cap disk' = {}]_vars

\* The last response came from a route handler, not from the upload middleware.
HandlerResponded == last.op # "none" /\ ~(last.op = "create" /\ last.filtered)

\* C9: every handler ends with its success body or a JSON object with an error
\* string.
C9_EveryFailureIsJson ==
    HandlerResponded => last.body \in {"success", "error"}

\* ------------------------------------------------ Image Request Forwarder
Prompts == {"", "beach day"}

\* The ids a generate-with-loved-one request may name; <<>> is a missing one.
LovedOneIds == RequestIds \cup {<<>>}

StyleSuffix == "vintage dreamlike polaroid"

\* styledPrompt = prompt + ', as a vintage dreamlike polaroid ...'
StyledPrompt(prompt) == <<prompt, StyleSuffix>>

\* enhancedPrompt: the prompt, the loved one's name, description and
\* relationship sentence, and the style
EnhancedPrompt(prompt, lovedOne) ==
    <<prompt, lovedOne.name, lovedOne.description>>
    \o (IF lovedOne.relationship # "" THEN <<lovedOne.relationship>> ELSE <<>>)
    \o <<StyleSuffix>>

GenerateCheck_NoKeyCheck(prompt) == IF prompt = "" THEN 400 ELSE 0

\* app.post('/api/generate'), up to the fetch: the status of the early return,
\* 0 when the handler goes on to call the service
GenerateCheck(prompt) ==
    IF prompt = "" THEN 400
    ELSE IF ~apiKey THEN 500
    ELSE 0

\* app.post('/api/generate-with-loved-one'), up to the fetch
GenerateWithLovedOneCheck(prompt, lovedOneId) ==
    IF prompt = "" \/ lovedOneId = <<>> THEN 400
    ELSE IF lovedOneId \notin DOMAIN lovedOnes THEN 404
    ELSE IF ~apiKey THEN 500
    ELSE 0

\* app.post('/api/generate'): the early returns, or the fetch is issued and
\* the handler waits for the service
Generate(prompt) ==
    /\ IF GenerateCheck(prompt) # 0
       THEN /\ last' = [op |-> "generate", status |-> GenerateCheck(prompt),
                        body |-> "error", prompt |-> prompt]
            /\ UNCHANGED <<pending, calls>>
       ELSE /\ calls < MaxCalls
            /\ calls' = calls + 1
            /\ pending' = pending \cup
                   {[op |-> "generate", call |-> calls + 1,
                     prompt |-> StyledPrompt(prompt)]}
            /\ UNCHANGED last
    /\ UNCHANGED <<now, profileVars, apiKey, arVars>>

\* app.post('/api/generate-with-loved-one'): the early returns, or the fetch
GenerateWithLovedOne(prompt, lovedOneId) ==
    /\ IF GenerateWithLovedOneCheck(prompt, lovedOneId) # 0
       THEN /\ last' = [op |-> "generate-with-loved-one",
                        status |-> GenerateWithLovedOneCheck(prompt, lovedOneId),
                        body |-> "error", prompt |-> prompt,
                        lovedOneId |-> lovedOneId]
            /\ UNCHANGED <<pending, calls>>
       ELSE /\ calls < MaxCalls
            /\ calls' = calls + 1
            /\ pending' = pending \cup
                   {[op |-> "generate-with-loved-one", call |-> calls + 1,
                     prompt |-> EnhancedPrompt(prompt, lovedOnes[lovedOneId]),
                     lovedOneName |-> lovedOnes[lovedOneId].name]}
            /\ UNCHANGED last
    /\ UNCHANGED <<now, profileVars, apiKey, arVars>>

\* The statuses of a non-success answer of the generation service.
UpstreamStatuses == {400, 429}

\* The rest of both handlers, from `await fetch`: the service answers with the
\* image (200), answers a non-success status, or the call or the reading of
\* its answer throws (0) and the catch block answers 500.
FetchDone(p, outcome) ==
    /\ p \in pending
    /\ pending' = pending \ {p}
    /\ last' = IF outcome = 200
               THEN [op |-> p.op, status |-> 200, body |-> "success"]
               ELSE IF outcome = 0
               THEN [op |-> p.op, status |-> 500, body |-> "error"]
               ELSE [op |-> p.op, status |-> outcome, body |-> "error"]
    /\ UNCHANGED <<now, profileVars, apiKey, calls, arVars>>

GenerateOps == {"generate", "generate-with-loved-one"}

Req == 1..MaxReq

IdleSlot == [pc |-> "idle"]

\* What a failed or truncated write leaves: a file JSON.parse rejects.
Corrupt == [valid |-> FALSE, sessions |-> <<>>]

Min(a, b) == IF a < b THEN a ELSE b

LimitSessions_NoSlice(sessions) == sessions

LimitSessions_First(sessions) == SubSeq(sessions, 1, Min(Len(sessions), Limit))

\* sessions.slice(-1000)
LimitSessions(sessions) ==
    SubSeq(sessions, Len(sessions) - Min(Len(sessions), Limit) + 1, Len(sessions))

\* readARSessions(): the sessions of the file, [] when reading or parsing throws
readARSessions(ioOk) == IF ioOk /\ doc.valid THEN doc.sessions ELSE <<>>

WriteOutcomes == {"ok", "failed", "truncated"}

\* writeARSessions(sessions): whether it succeeded, and the file it leaves; a
\* failed writeFileSync leaves the file as it was or truncated
writeARSessions(sessions, outcome) ==
    [success |-> outcome = "ok",
     doc |-> IF outcome = "ok" THEN [valid |-> TRUE, sessions |-> sessions]
             ELSE IF outcome = "truncated" THEN Corrupt
             ELSE doc]

EventLoopFree_Async(r) == TRUE

\* The handlers are synchronous functions (readFileSync, writeFileSync, no
\* await): none starts while another one is between its read and its write.
EventLoopFree(r) == \A q \in Req \ {r} : slot[q].pc # "read"

\* A request reaches the server: express.json() parses its body and queues the
\* handler. sessionId 0 is a body without a sessionId.
ReceiveSession(r, sessionId) ==
    /\ slot[r].pc \in {"idle", "done"}
    /\ slot' = [q \in Req |->
                  IF q = r
                  THEN [pc |-> "received", body |-> [sessionId |-> sessionId],
                        raced |-> \E o \in Req \ {r} :
                                     slot[o].pc \in {"received", "read"}]
                  ELSE IF slot[q].pc \in {"received", "read"}
                  THEN [slot[q] EXCEPT !.raced = TRUE]
                  ELSE slot[q]]
    /\ sent' = IF sessionId > sent THEN sessionId ELSE sent
    /\ UNCHANGED <<now, profileVars, genVars, doc, last>>

\* { ...sessionData, savedAt: new Date().toISOString() }
SavedRecord(body) == [sessionId |-> body.sessionId, savedAt |-> now]

\* app.post('/api/ar/session'), to the call of writeARSessions: validate, read,
\* push, slice
BeginSession(r, ioOk) ==
    /\ slot[r].pc = "received"
    /\ EventLoopFree(r)
    /\ IF slot[r].body.sessionId = 0
       THEN /\ slot' = [slot EXCEPT ![r] =
                           [pc |-> "done", status |-> 400, raced |-> @.raced]]
            /\ last' = [op |-> "append", status |-> 400, body |-> "error"]
       ELSE /\ slot' = [slot EXCEPT ![r] =
                [pc |-> "read", raced |-> @.raced,
                 readFailed |-> ~(ioOk /\ doc.valid),
                 record |-> SavedRecord(@.body),
                 limitedSessions |->
                     LimitSessions(Append(readARSessions(ioOk), SavedRecord(@.body)))]]
            /\ UNCHANGED last
    /\ UNCHANGED <<now, profileVars, genVars, doc, sent>>

\* app.post('/api/ar/session'), from the call of writeARSessions: write, answer
SaveSession(r, outcome) ==
    /\ slot[r].pc = "read"
    /\ LET w == writeARSessions(slot[r].limitedSessions, outcome) IN
       /\ doc' = w.doc
       /\ slot' = [slot EXCEPT ![r] =
                      [pc |-> "done", status |-> IF w.success THEN 200 ELSE 500,
                       raced |-> @.raced, record |-> @.record]]
       /\ last' = IF w.success
                  THEN [op |-> "append", status |-> 200, body |-> "success",
                        totalSessions |-> Len(slot[r].limitedSessions)]
                  ELSE [op |-> "append", status |-> 500, body |-> "error"]
    /\ UNCHANGED <<now, profileVars, genVars, sent>>

\* app.get('/api/ar/sessions')
ListSessions(ioOk) ==
    /\ EventLoopFree(0)
    /\ last' = [op |-> "sessions", status |-> 200, body |-> "success",
                totalSessions |-> Len(readARSessions(ioOk))]
    /\ UNCHANGED <<now, profileVars, genVars, arVars>>

\* app.delete('/api/ar/sessions')
ClearSessions(outcome) ==
    /\ EventLoopFree(0)
    /\ LET w == writeARSessions(<<>>, outcome) IN
       /\ doc' = w.doc
       /\ last' = IF w.success
                  THEN [op |-> "clear", status |-> 200, body |-> "success"]
                  ELSE [op |-> "clear", status |-> 500, body |-> "error"]
    /\ UNCHANGED <<now, profileVars, genVars, slot, sent>>


\* --------------------------------------------------- session log claims
\* The last n entries of s.
LastEntries(s, n) == IF Len(s) <= n THEN s ELSE SubSeq(s, Len(s) - n + 1, Len(s))

\* C1: the persisted session sequence holds at most 1000 records.
C1_AtMostLimit == Len(doc.sessions) <= Limit

\* An append handler has read a log of 1000 records, pushed its record and
\* sliced, and the log it is about to write back holds 1000.
C1_Witness ==
    /\ Len(doc.sessions) = Limit
    /\ slot[1].pc = "read" /\ ~slot[1].readFailed
    /\ Len(slot[1].limitedSessions) = Limit

\* The appends of SpecSeq that have been answered.
Answered == sent - (IF slot[1].pc \in {"received", "read"} THEN 1 ELSE 0)

\* C2: after n successful sequential appends to an empty log the persisted
\* sequence is the last min(n, 1000) appended records, in order of arrival.
C2_LastAppendsKept ==
    LET n == Answered
        m == IF n < Limit THEN n ELSE Limit
    IN  /\ Len(doc.sessions) = m
        /\ \A i \in 1..m : doc.sessions[i].sessionId = n - m + i

\* 1005 appends were answered: records 1 to 5 are gone, 6 to 1005 remain.
C2_Witness ==
    /\ Answered = Limit + 5
    /\ slot[1].pc = "done" /\ slot[1].status = 200
    /\ Len(doc.sessions) = Limit
    /\ doc.sessions[1].sessionId = 6
    /\ doc.sessions[Limit].sessionId = Limit + 5

C10_FrontEvictionOnly ==
    [][\A r \in Req :
          (slot[r].pc = "read" /\ slot'[r].pc = "done" /\ slot'[r].status = 200)
              => doc'.sessions =
                     LastEntries(Append(doc.sessions, slot[r].record), Limit)]_vars

Init ==
    /\ now = 0
    /\ lovedOnes = <<>>
    /\ disk = {}
    /\ upload = None
    /\ apiKey \in BOOLEAN
    /\ pending = {}
    /\ calls = 0
    /\ doc = [valid |-> TRUE, sessions |-> <<>>]
    /\ slot = [r \in Req |-> IdleSlot]
    /\ sent = 0
    /\ last = [op |-> "none", status |-> 0, body |-> "none"]

Next ==
    \/ Tick
    \/ \E name \in Names, description \in Descriptions,
          relationship \in Relationships, files \in SeqsUpTo(Files, MaxFiles) :
          UploadAccepted(name, description, relationship, files)
    \/ \E name \in Names, description \in Descriptions,
          relationship \in Relationships, files \in SeqsUpTo(Files, MaxFiles) :
          UploadRejected(name, description, relationship, files)
    \/ CreateLovedOne
    \/ ListLovedOnes
    \/ \E id \in RequestIds : GetLovedOne(id)
    \/ \E id \in RequestIds, failAt \in 0..MaxFiles : DeleteLovedOne(id, failAt)
    \/ Health

Spec == Init /\ [][Next]_vars

\* The forwarder, with the creates that give it profiles to name.
NextGen ==
    \/ \E name \in Names, description \in Descriptions,
          relationship \in Relationships, files \in SeqsUpTo(Files, 1) :
          UploadAccepted(name, description, relationship, files)
    \/ CreateLovedOne
    \/ \E prompt \in Prompts : Generate(prompt)
    \/ \E prompt \in Prompts, lovedOneId \in LovedOneIds :
          GenerateWithLovedOne(prompt, lovedOneId)
    \/ \E p \in pending, outcome \in {200, 0} \cup UpstreamStatuses :
          FetchDone(p, outcome)

SpecGen == Init /\ [][NextGen]_vars

\* The AR session log under concurrent clients and I/O failures.
NextAR ==
    \/ Tick
    \/ \E r \in Req : sent < MaxSends /\ ReceiveSession(r, sent + 1)
    \/ \E r \in Req : ReceiveSession(r, 0)
    \/ \E r \in Req, ioOk \in BOOLEAN : BeginSession(r, ioOk)
    \/ \E r \in Req, outcome \in WriteOutcomes : SaveSession(r, outcome)
    \/ \E ioOk \in BOOLEAN : ListSessions(ioOk)
    \/ \E outcome \in WriteOutcomes : ClearSessions(outcome)

SpecAR == Init /\ [][NextAR]_vars

\* One client that posts the same session again and again, and clears the log.
NextLog ==
    \/ ReceiveSession(1, 1)
    \/ \E ioOk \in BOOLEAN : BeginSession(1, ioOk)
    \/ \E outcome \in WriteOutcomes : SaveSession(1, outcome)
    \/ \E ioOk \in BOOLEAN : ListSessions(ioOk)
    \/ \E outcome \in WriteOutcomes : ClearSessions(outcome)

SpecLog == Init /\ [][NextLog]_vars

\* One client that appends numbered sessions one after the other, each append
\* succeeding.
NextSeq ==
    \/ sent < MaxAppends /\ ReceiveSession(1, sent + 1)
    \/ BeginSession(1, TRUE)
    \/ SaveSession(1, "ok")

SpecSeq == Init /\ [][NextSeq]_vars
====
